---- MODULE Spec2Model ----
(***************************************************************************)
(* A model of the WinGo prediction bot: the registry of active messages    *)
(* (utils.py), the scheduler round and the button handler (bot.py), the    *)
(* local store (database.py), the remote source (web_scraper.py) and the   *)
(* content generator (fixed_prediction.py).                                *)
(*                                                                         *)
(* The event loop is cooperative: a coroutine runs until its next await.   *)
(* Every action below is one such run, from a resumption to the next       *)
(* suspension.  The scheduler positions "loop" and "after" are not         *)
(* suspensions: while the job is there no other handler may run.           *)
(***************************************************************************)
EXTENDS Integers, Sequences, FiniteSets, TLC

VARIABLES
    active_messages,  \* utils.active_messages: duration -> list of (chat_id, message_id)
    wingo_results,    \* table wingo_results, in insertion (id) order
    wingo_predictions,\* table wingo_predictions, in insertion (id) order
    chat_of,          \* the messages the bot has sent: message_id -> chat_id
    job,              \* the update_active_messages job: where the coroutine stands
    cb,               \* the button_callback being processed, if any
    hist,             \* what the current scheduler round has done so far
    event             \* the last operation and what it did

vars == <<active_messages, wingo_results, wingo_predictions, chat_of, job, cb, hist, event>>

-----------------------------------------------------------------------------
(* Bounds of the model *)

MaxMessages == 2       \* messages the bot sends (small registry specification)
MaxRegistered == 2     \* handles per category (small registry specification)
MaxNewResults == 1     \* outcomes added per category after the seed
MaxNewPredictions == 2 \* prediction rows added after the seed (registry specifications)
MaxSaved == 1          \* prediction rows added after the seed (store specifications)
MaxWebLen == 1         \* records in one remote payload

(* Program constants *)

max_messages == 20     \* utils.clear_old_messages
RESULTS_LENGTH == 10
PastPredictions == 10   \* config.py
FirstPeriodMinusOne == 789  \* database.get_next_period_id: (MAX or 789) + 1
WebFallbackPeriod == 1000   \* web_scraper.get_next_period_id: "return 1000"

Durations == {"30 SEC", "1 MIN"}
PredictionOptions == {"RED", "GREEN", "BIG", "SMALL"}

(* A nullable column: NULL, or one value *)
NULL == <<>>
Some(v) == <<v>>

-----------------------------------------------------------------------------
(* Strings.  Python's  a in b  on strings is the substring test; the labels *)
(* are spelled out so that the test is computed, not assumed.               *)

Chars(s) ==
    CASE s = "RED"   -> <<"R", "E", "D">>
      [] s = "GREEN" -> <<"G", "R", "E", "E", "N">>
      [] s = "BIG"   -> <<"B", "I", "G">>
      [] s = "SMALL" -> <<"S", "M", "A", "L", "L">>
      [] s = ""      -> <<>>

\* a in b
StrIn(a, b) ==
    LET x == Chars(a)
        y == Chars(b)
    IN \E i \in 0..(Len(y) - Len(x)) :
          \A k \in 1..Len(x) : y[i + k] = x[k]

\* duration.replace(" ", "")
NormDuration(duration) ==
    CASE duration = "30 SEC" -> "30SEC"
      [] duration = "1 MIN"  -> "1MIN"
      [] OTHER               -> duration

-----------------------------------------------------------------------------
(* database.py: the seed *)

patterns ==
    << <<801, "30 SEC", "RED", "RED", "BIG">>,
       <<802, "30 SEC", "GREEN", "GREEN", "SMALL">>,
       <<803, "30 SEC", "RED", "RED", "SMALL">>,
       <<804, "30 SEC", "BIG", "GREEN", "BIG">>,
       <<805, "30 SEC", "GREEN", "GREEN", "BIG">>,
       <<806, "30 SEC", "RED", "RED", "SMALL">>,
       <<807, "30 SEC", "SMALL", "RED", "SMALL">>,
       <<808, "30 SEC", "GREEN", "GREEN", "BIG">>,
       <<809, "30 SEC", "SMALL", "GREEN", "SMALL">>,
       <<810, "30 SEC", "RED", "RED", "BIG">>,
       <<811, "30 SEC", "RED", "RED", "SMALL">>,
       <<812, "30 SEC", "GREEN", "GREEN", "BIG">>,
       <<801, "1 MIN", "BIG", "GREEN", "BIG">>,
       <<802, "1 MIN", "RED", "RED", "SMALL">>,
       <<803, "1 MIN", "GREEN", "GREEN", "BIG">>,
       <<804, "1 MIN", "SMALL", "GREEN", "SMALL">>,
       <<805, "1 MIN", "BIG", "RED", "BIG">>,
       <<806, "1 MIN", "SMALL", "RED", "SMALL">>,
       <<807, "1 MIN", "BIG", "RED", "BIG">>,
       <<808, "1 MIN", "BIG", "GREEN", "BIG">>,
       <<809, "1 MIN", "BIG", "GREEN", "BIG">>,
       <<810, "1 MIN", "GREEN", "GREEN", "SMALL">> >>

\* The losing prediction the seed writes: the opposite of the result.
SeedOpposite(result) ==
    IF result = "RED" THEN "GREEN"
    ELSE IF result = "GREEN" THEN "RED"
    ELSE IF result = "BIG" THEN "SMALL"
    ELSE "BIG"

SeedResults ==
    [i \in 1..Len(patterns) |->
        [period_id |-> patterns[i][1], duration |-> patterns[i][2],
         result |-> patterns[i][3], color |-> patterns[i][4],
         size |-> patterns[i][5]]]

\* random.random() < 0.7 per pattern: losers is the set of patterns that drew a loss.
SeedPredictions(losers) ==
    [i \in 1..Len(patterns) |->
        LET result == patterns[i][3]
            prediction == IF i \in losers THEN SeedOpposite(result) ELSE result
        IN [period_id |-> patterns[i][1], duration |-> patterns[i][2],
            prediction |-> prediction, result |-> Some(result),
            is_win |-> Some(prediction = result)]]

-----------------------------------------------------------------------------
(* database.py: queries and updates, as functions of the tables *)

RowsOf(table, duration) ==
    SelectSeq(table, LAMBDA r : r.duration = duration)

\* ORDER BY period_id DESC
OrderByPeriodDesc(rows) ==
    SortSeq(rows, LAMBDA a, b : a.period_id > b.period_id)

\* SELECT MAX(period_id) of rows that are not empty
MaxPeriod(rows) == OrderByPeriodDesc(rows)[1].period_id

Limit(rows, limit) ==
    IF Len(rows) <= limit THEN rows ELSE SubSeq(rows, 1, limit)

get_latest_results(results, duration, limit) ==
    Limit(OrderByPeriodDesc(RowsOf(results, duration)), limit)

get_predictions(predictions, duration, limit) ==
    Limit(OrderByPeriodDesc(RowsOf(predictions, duration)), limit)

\* A faulty variant of get_next_period_id: MAX over both categories.
get_next_period_id_of_all(results, duration) ==
    (IF results = <<>> THEN FirstPeriodMinusOne ELSE MaxPeriod(results)) + 1

\* (result[0] or 789) + 1
get_next_period_id(results, duration) ==
    LET rows == RowsOf(results, duration)
        m == IF rows = <<>> THEN 0 ELSE MaxPeriod(rows)
    IN (IF m = 0 THEN FirstPeriodMinusOne ELSE m) + 1

Matches(r, period_id, duration) ==
    r.period_id = period_id /\ r.duration = duration

HasRow(table, period_id, duration) ==
    \E i \in 1..Len(table) : Matches(table[i], period_id, duration)

\* A faulty variant of save_prediction: it inserts without looking.
save_prediction_inserts(predictions, period_id, duration, prediction) ==
    Append(predictions,
           [period_id |-> period_id, duration |-> duration,
            prediction |-> prediction, result |-> NULL, is_win |-> NULL])

\* The table after save_prediction: UPDATE of every row of the pair, or one INSERT.
save_prediction(predictions, period_id, duration, prediction) ==
    IF HasRow(predictions, period_id, duration)
    THEN [i \in 1..Len(predictions) |->
            IF Matches(predictions[i], period_id, duration)
            THEN [predictions[i] EXCEPT !.prediction = prediction]
            ELSE predictions[i]]
    ELSE Append(predictions,
                [period_id |-> period_id, duration |-> duration,
                 prediction |-> prediction, result |-> NULL, is_win |-> NULL])

\* What save_prediction returns: the id of the existing row, or lastrowid.
save_prediction_id(predictions, period_id, duration) ==
    IF HasRow(predictions, period_id, duration)
    THEN CHOOSE i \in 1..Len(predictions) :
            /\ Matches(predictions[i], period_id, duration)
            /\ \A k \in 1..(i - 1) : ~Matches(predictions[k], period_id, duration)
    ELSE Len(predictions) + 1

\* A faulty variant of update_predictions: the WHERE clause has no "period_id = ?".
update_predictions_of_category(predictions, period_id, duration, actual_result) ==
    [i \in 1..Len(predictions) |->
        IF predictions[i].duration = duration /\ predictions[i].result = NULL
        THEN [predictions[i] EXCEPT
                !.result = Some(actual_result),
                !.is_win = Some(StrIn(predictions[i].prediction, actual_result)
                                \/ StrIn(actual_result, predictions[i].prediction))]
        ELSE predictions[i]]

\* A faulty variant of update_predictions: the WHERE clause has no "result IS NULL".
update_predictions_resolved_too(predictions, period_id, duration, actual_result) ==
    [i \in 1..Len(predictions) |->
        IF Matches(predictions[i], period_id, duration)
        THEN [predictions[i] EXCEPT
                !.result = Some(actual_result),
                !.is_win = Some(StrIn(predictions[i].prediction, actual_result)
                                \/ StrIn(actual_result, predictions[i].prediction))]
        ELSE predictions[i]]

\* WHERE period_id = ? AND duration = ? AND result IS NULL
update_predictions(predictions, period_id, duration, actual_result) ==
    [i \in 1..Len(predictions) |->
        IF Matches(predictions[i], period_id, duration) /\ predictions[i].result = NULL
        THEN [predictions[i] EXCEPT
                !.result = Some(actual_result),
                !.is_win = Some(StrIn(predictions[i].prediction, actual_result)
                                \/ StrIn(actual_result, predictions[i].prediction))]
        ELSE predictions[i]]

\* get_win_rate: COUNT(*) and SUM(is_win = 1) over every row WHERE duration = ?
\* AND is_win IS NOT NULL.  The aggregate has one row, so ORDER BY id DESC
\* orders that row and LIMIT last_n keeps it unless last_n is 0; without the
\* row, or with total 0, the rate is 0.5.  The rate is the fraction wins/total.
get_win_rate(predictions, duration, last_n) ==
    LET resolved == SelectSeq(predictions,
                              LAMBDA r : r.duration = duration /\ r.is_win # NULL)
        total == Len(resolved)
        wins == Cardinality({i \in 1..total : resolved[i].is_win = Some(TRUE)})
    IN IF last_n # 0 /\ total > 0
       THEN [wins |-> wins, total |-> total]
       ELSE [wins |-> 1, total |-> 2]

\* A faulty variant of add_new_result: the new outcome takes the place of the
\* table's last row.
add_new_result_replaces(results, predictions, duration, result, color, size) ==
    LET period_id == get_next_period_id(results, duration)
    IN [results |-> [results EXCEPT ![Len(results)] =
                       [period_id |-> period_id, duration |-> duration,
                        result |-> result, color |-> color, size |-> size]],
        predictions |-> update_predictions(predictions, period_id, duration, result),
        period_id |-> period_id]

\* A faulty variant of add_new_result: update_predictions is called for the
\* period before the one it stored.
add_new_result_settles_previous(results, predictions, duration, result, color, size) ==
    LET period_id == get_next_period_id(results, duration)
    IN [results |-> Append(results,
                       [period_id |-> period_id, duration |-> duration,
                        result |-> result, color |-> color, size |-> size]),
        predictions |-> update_predictions(predictions, period_id - 1, duration, result),
        period_id |-> period_id]

\* The two tables after add_new_result, and the period it returns.
add_new_result(results, predictions, duration, result, color, size) ==
    LET period_id == get_next_period_id(results, duration)
    IN [results |-> Append(results,
                       [period_id |-> period_id, duration |-> duration,
                        result |-> result, color |-> color, size |-> size]),
        predictions |-> update_predictions(predictions, period_id, duration, result),
        period_id |-> period_id]

-----------------------------------------------------------------------------
(* web_scraper.py: the remote source.  A response is what one GET brings    *)
(* back: kind "exception" (requests raises, times out, or the body does not *)
(* parse), "status" (a status code other than 200), "payload" (no success   *)
(* flag or no data) or "ok" (a list of records).                             *)

\* The record the model lets the remote source return: the latest issue is
\* the last period of the seed.
RemoteRecords ==
    {[issueNumber |-> 812, colorType |-> 1, sizeType |-> 0]}

\* The records of the first call: also one without color and size (its
\* result label is empty) and one whose size overrides its color.
RemoteLabelled ==
    RemoteRecords
    \cup {[issueNumber |-> 812, colorType |-> 0, sizeType |-> 0],
          [issueNumber |-> 812, colorType |-> 2, sizeType |-> 1]}

RemoteData ==
    UNION {[1..n -> RemoteLabelled] : n \in 0..MaxWebLen}

RemoteFailures ==
    {[kind |-> k, data |-> <<>>] : k \in {"exception", "status", "payload"}}

RemoteResponses ==
    RemoteFailures \cup {[kind |-> "ok", data |-> d] : d \in RemoteData}

\* The responses to the second call: a failure, or the latest record.
LatestResponses ==
    {[kind |-> "exception", data |-> <<>>]}
    \cup {[kind |-> "ok", data |-> <<r>>] : r \in RemoteRecords}

\* How a response ends: the kind of failure, "empty" for a list without
\* records, "ok" otherwise.
RemoteKind(response) ==
    IF response.kind # "ok" THEN response.kind
    ELSE IF response.data = <<>> THEN "empty" ELSE "ok"

\* One record of the payload, remapped.
WebRecord(record) ==
    LET color == IF record.colorType = 1 THEN "RED"
                 ELSE IF record.colorType = 2 THEN "GREEN" ELSE ""
        result_text == IF record.sizeType = 1 THEN "BIG"
                       ELSE IF record.sizeType = 2 THEN "SMALL" ELSE color
    IN [period_id |-> record.issueNumber, result |-> result_text, color |-> color,
        size |-> IF record.sizeType = 1 THEN "BIG"
                 ELSE IF record.sizeType = 2 THEN "SMALL" ELSE ""]

\* A faulty variant of get_wingo_results: a payload without data is read as
\* one record without fields.
ws_results_of_any_payload(response) ==
    IF response.kind = "ok"
    THEN [i \in 1..Len(response.data) |-> WebRecord(response.data[i])]
    ELSE IF response.kind = "payload"
    THEN <<[period_id |-> 0, result |-> "", color |-> "", size |-> ""]>>
    ELSE <<>>

ws_get_wingo_results(response) ==
    IF response.kind = "ok"
    THEN [i \in 1..Len(response.data) |-> WebRecord(response.data[i])]
    ELSE <<>>

ws_get_next_period_id(response) ==
    LET results == ws_get_wingo_results(response)
    IN IF Len(results) > 0 THEN results[1].period_id + 1 ELSE WebFallbackPeriod

-----------------------------------------------------------------------------
(* fixed_prediction.py: the content generator *)

\* A faulty variant of the alternating rule: a label that is none of the four
\* is handed on as it is.
NextPredictionOfKnown(last_result) ==
    IF last_result \in {"RED", "GREEN"}
    THEN (IF last_result = "RED" THEN "GREEN" ELSE "RED")
    ELSE IF last_result \in {"BIG", "SMALL"}
    THEN (IF last_result = "BIG" THEN "SMALL" ELSE "BIG")
    ELSE last_result

\* The alternating rule applied to the last result.
NextPrediction(last_result) ==
    IF last_result \in {"RED", "GREEN"}
    THEN (IF last_result = "RED" THEN "GREEN" ELSE "RED")
    ELSE (IF last_result = "BIG" THEN "SMALL" ELSE "BIG")

\* The periods of the formatted text, line by line: the next-period line,
\* then one line for each row of db.get_predictions(duration, 10), read after
\* the next period's prediction was saved.
listed_periods(predictions, duration, next_period) ==
    LET past_predictions == get_predictions(predictions, duration, PastPredictions)
    IN <<next_period>> \o
       [i \in 1..Len(past_predictions) |-> past_predictions[i].period_id]

\* A faulty variant of generate_formatted_predictions: the fallback branch
\* keeps the period the remote source gave.
generate_keeps_remote_period(results, predictions, duration, limit, first, second, choice) ==
    LET web_results == ws_get_wingo_results(first)
        web_next == ws_get_next_period_id(second)
        remote == Len(web_results) > 0
        local_results == get_latest_results(results, duration, limit)
        next_period == web_next
        shown == IF remote
                 THEN [i \in 1..Len(web_results) |->
                         [period_id |-> web_results[i].period_id,
                          result |-> web_results[i].result,
                          color |-> web_results[i].color]]
                 ELSE local_results
        next_prediction ==
            IF remote THEN NextPrediction(web_results[1].result)
            ELSE IF Len(local_results) > 0 THEN NextPrediction(local_results[1].result)
            ELSE choice
    IN [path |-> IF remote THEN "remote" ELSE "local",
        first |-> RemoteKind(first),
        second_failed |-> RemoteKind(second) # "ok",
        web_results |-> web_results,
        web_next |-> web_next,
        duration |-> duration,
        next_period |-> next_period,
        next_prediction |-> next_prediction,
        results |-> shown,
        prediction_id |-> save_prediction_id(predictions, next_period, duration),
        inserted |-> ~HasRow(predictions, next_period, duration),
        outcome_known |-> HasRow(results, next_period, duration),
        listed |-> listed_periods(save_prediction(predictions, next_period, duration,
                                                   next_prediction),
                                   duration, next_period),
        predictions |-> save_prediction(predictions, next_period, duration, next_prediction)]

\* generate_formatted_predictions(duration, limit) with the two remote responses
\* it receives (first the outcomes, then the latest period) and the draw of
\* random.choice it may need.  The record holds the locals of the call, how
\* the two remote calls ended, and the predictions table it leaves.
generate_formatted_predictions(results, predictions, duration, limit, first, second, choice) ==
    LET web_results == ws_get_wingo_results(first)
        web_next == ws_get_next_period_id(second)
        remote == Len(web_results) > 0
        local_results == get_latest_results(results, duration, limit)
        next_period == IF remote THEN web_next ELSE get_next_period_id(results, duration)
        shown == IF remote
                 THEN [i \in 1..Len(web_results) |->
                         [period_id |-> web_results[i].period_id,
                          result |-> web_results[i].result,
                          color |-> web_results[i].color]]
                 ELSE local_results
        next_prediction ==
            IF remote THEN NextPrediction(web_results[1].result)
            ELSE IF Len(local_results) > 0 THEN NextPrediction(local_results[1].result)
            ELSE choice
    IN [path |-> IF remote THEN "remote" ELSE "local",
        first |-> RemoteKind(first),
        second_failed |-> RemoteKind(second) # "ok",
        web_results |-> web_results,
        web_next |-> web_next,
        duration |-> duration,
        next_period |-> next_period,
        next_prediction |-> next_prediction,
        results |-> shown,
        prediction_id |-> save_prediction_id(predictions, next_period, duration),
        inserted |-> ~HasRow(predictions, next_period, duration),
        outcome_known |-> HasRow(results, next_period, duration),
        listed |-> listed_periods(save_prediction(predictions, next_period, duration,
                                                   next_prediction),
                                   duration, next_period),
        predictions |-> save_prediction(predictions, next_period, duration, next_prediction)]

-----------------------------------------------------------------------------
(* utils.py: the registry *)

Chats == {1}   \* the chats that talk to the bot
NoHandle == <<0, 0>>

Range(seq) == {seq[i] : i \in 1..Len(seq)}

\* list.remove(x): the first occurrence goes
RemoveFirst(seq, x) ==
    LET i == CHOOSE j \in 1..Len(seq) :
                /\ seq[j] = x
                /\ \A k \in 1..(j - 1) : seq[k] # x
    IN [k \in 1..(Len(seq) - 1) |-> IF k < i THEN seq[k] ELSE seq[k + 1]]

register_active_message(registry, duration, handle) ==
    [registry EXCEPT ![duration] = Append(@, handle)]

unregister_active_message(registry, duration, handle) ==
    IF handle \in Range(registry[duration])
    THEN [registry EXCEPT ![duration] = RemoveFirst(@, handle)]
    ELSE registry

\* lst[-max_messages:] of every list longer than max_messages
\* A faulty variant of clear_old_messages: it keeps the oldest handles.
clear_old_messages_oldest(registry) ==
    [d \in DOMAIN registry |->
        IF Len(registry[d]) > max_messages
        THEN SubSeq(registry[d], 1, max_messages)
        ELSE registry[d]]

clear_old_messages(registry) ==
    [d \in DOMAIN registry |->
        IF Len(registry[d]) > max_messages
        THEN SubSeq(registry[d], Len(registry[d]) - max_messages + 1, Len(registry[d]))
        ELSE registry[d]]

-----------------------------------------------------------------------------
(* The environment of one specification: the remote responses, the clock,  *)
(* the outcomes of the chat platform's calls and the buttons users press.  *)

Count(seq, x) == Cardinality({i \in 1..Len(seq) : seq[i] = x})

TotalRegistered == Len(active_messages["30 SEC"]) + Len(active_messages["1 MIN"])

\* The small registry: every message, every button, a few handles in all.
EnvSmall ==
    [mode |-> "small",
     firsts |-> {[kind |-> "exception", data |-> <<>>]},
     seconds |-> {[kind |-> "exception", data |-> <<>>]},
     clock |-> {FALSE},
     edits |-> BOOLEAN,
     track |-> TRUE,
     rows |-> MaxNewPredictions,
     results |-> MaxNewResults]

\* The registry at its retention cap: every menu is sent before the first
\* button is pressed; the first message is pressed again and again, the second
\* is registered at most once per category at a time, at the head of the
\* "30 SEC" list or near the cap, the others never.
CapSlack == 2
CapOther == 1

EnvCap ==
    [mode |-> "cap",
     firsts |-> {[kind |-> "exception", data |-> <<>>]},
     seconds |-> {[kind |-> "exception", data |-> <<>>]},
     clock |-> {FALSE},
     edits |-> BOOLEAN,
     track |-> FALSE,
     rows |-> MaxNewPredictions,
     results |-> MaxNewResults]

\* Whether the model lets a user press the button of category duration on message m.
CanPress(env, duration, m) ==
    IF env.mode = "small"
    THEN TotalRegistered < MaxRegistered
    ELSE /\ Len(chat_of) = MaxMessages
         /\ Len(active_messages[duration]) <
              (IF duration = "30 SEC" THEN max_messages + CapSlack ELSE CapOther)
         /\ \/ m = 1
            \/ /\ m = 2
               /\ Count(active_messages[duration], <<chat_of[m], m>>) = 0
               /\ duration = "30 SEC" =>
                     \/ active_messages[duration] = <<>>
                     \/ Len(active_messages[duration]) + 1 >= max_messages

-----------------------------------------------------------------------------
(* Content generation and simulation as the handlers call them *)

NewResults(duration) ==
    Len(RowsOf(wingo_results, duration)) - Len(RowsOf(SeedResults, duration))

\* random.choice is drawn only when the store has no outcome of the category.
Choices(duration) ==
    IF RowsOf(wingo_results, duration) = <<>> THEN PredictionOptions ELSE {"RED"}

\* The calls of generate_formatted_predictions the environment allows.
Generated(env, duration) ==
    {g \in {generate_formatted_predictions(wingo_results, wingo_predictions, duration,
                                            RESULTS_LENGTH, first, second, choice) :
                first \in env.firsts, second \in env.seconds, choice \in Choices(duration)} :
        Len(g.predictions) <= Len(patterns) + env.rows}

\* What the event keeps of a call: its locals, not the table.
GenInfo(g) ==
    [path |-> g.path, first |-> g.first, second_failed |-> g.second_failed,
     web_results |-> g.web_results, web_next |-> g.web_next,
     duration |-> g.duration, next_period |-> g.next_period,
     next_prediction |-> g.next_prediction, results |-> g.results,
     prediction_id |-> g.prediction_id, inserted |-> g.inserted,
     outcome_known |-> g.outcome_known, listed |-> g.listed]

NoGen == [path |-> "none"]

\* prediction_logic.simulate_result: the draws of color, size and which of
\* the two is shown that the model takes.
SimulationDraws ==
    {[color |-> "RED", size |-> "BIG", result |-> "RED"],
     [color |-> "GREEN", size |-> "SMALL", result |-> "SMALL"]}

simulate_result(results, predictions, duration, draw) ==
    add_new_result(results, predictions, duration, draw.result, draw.color, draw.size)

\* run_repeating(interval=5.0) and the seconds of a minute
Interval == 5
SecondsPerMinute == 60

\* The answers of the test on datetime.now().second: the specification that
\* follows the clock computes it from the second the job fired at, the others
\* take it from their environment.
ClockSays(env, duration, second) ==
    IF env.mode = "clock"
    THEN {IF duration = "30 SEC" THEN second % 30 = 0 ELSE second = 0}
    ELSE env.clock

\* The tables after "generate, then simulate when the clock says so".
AfterSimulation(env, duration, predictions, second) ==
    {[results |-> wingo_results, predictions |-> predictions, simulated |-> FALSE] :
        t \in ClockSays(env, duration, second) \ {TRUE}}
    \cup
    {[results |-> a.results, predictions |-> a.predictions, simulated |-> TRUE] :
        a \in {simulate_result(wingo_results, predictions, duration, draw) :
                draw \in {d \in SimulationDraws :
                            /\ TRUE \in ClockSays(env, duration, second)
                            /\ d.result \in {d.color, d.size}
                            /\ NewResults(duration) < env.results}}}

-----------------------------------------------------------------------------
(* The state after construction *)

\* second: the second of the minute the job last fired at (kept at 0 by the
\* specifications that do not follow the clock)
IdleJob == [pc |-> "idle", duration |-> "30 SEC", it |-> 0, cur |-> NoHandle, second |-> 0]
IdleCb == [pc |-> "idle", duration |-> "30 SEC", chat_id |-> 0, message_id |-> 0]

EmptyHist ==
    [snap |-> [d \in Durations |-> <<>>], attempted |-> {}, failed |-> {},
     owed |-> {}, registered |-> {}, log |-> <<>>]

Ev(op, duration, handle, gen) ==
    [op |-> op, duration |-> duration, handle |-> handle, gen |-> gen]

InitOf(draws, seconds) ==
    /\ active_messages = [d \in Durations |-> <<>>]
    /\ wingo_results = SeedResults
    /\ \E losers \in draws : wingo_predictions = SeedPredictions(losers)
    /\ chat_of = <<>>
    /\ \E second \in seconds : job = [IdleJob EXCEPT !.second = second]
    /\ cb = IdleCb
    /\ hist = EmptyHist
    /\ event = Ev("init", "", NoHandle, NoGen)

\* The specifications start from one draw of the seed.
Init == InitOf({{2, 12, 22}}, {0})

\* A handler may run when the scheduler round is not running or is suspended
\* at an await.
Suspended == job.pc \in {"idle", "await"}

\* The timing the cap specification leaves out (the small specification
\* explores it): the job fires only when the "30 SEC" list is at the cap or
\* above it and no button is being handled, and users press no
\* button while the round is in its "30 SEC" loop.
Quiet(env) ==
    /\ env.mode = "cap"
    /\ \/ job.pc # "idle" /\ job.duration = "30 SEC"
       \/ job.pc = "idle" /\ cb.pc # "idle"

JobQuiet(env) ==
    /\ env.mode = "cap"
    /\ \/ Len(active_messages["30 SEC"]) < max_messages
       \/ cb.pc # "idle"

\* The history describes the round in progress or the one just completed: the
\* first operation after a completed round forgets it.
HistOutside(env) == IF env.track /\ job.pc # "idle" THEN hist ELSE EmptyHist

HistRegistered(env, duration, handle) ==
    LET h == HistOutside(env)
    IN [h EXCEPT !.failed = @ \ {<<duration, handle>>},
                 !.registered = IF env.track /\ job.pc # "idle"
                                THEN @ \cup {<<duration, handle>>} ELSE @]

-----------------------------------------------------------------------------
(* bot.py: the handlers *)

\* start_command: the menu is sent as a new message.
Start(env, chat_id) ==
    /\ Suspended /\ cb.pc = "idle" /\ ~Quiet(env)
    /\ Len(chat_of) < MaxMessages
    /\ chat_of' = Append(chat_of, chat_id)
    /\ hist' = HistOutside(env)
    /\ event' = Ev("start", "", NoHandle, NoGen)
    /\ UNCHANGED <<active_messages, wingo_results, wingo_predictions, job, cb>>

\* button_callback, option "exit": the message is edited to the goodbye text.
Exit(env, m) ==
    /\ Suspended /\ cb.pc = "idle" /\ ~Quiet(env)
    /\ m \in 1..Len(chat_of)
    /\ hist' = HistOutside(env)
    /\ event' = Ev("exit", "", NoHandle, NoGen)
    /\ UNCHANGED <<active_messages, wingo_results, wingo_predictions, chat_of, job, cb>>

\* A faulty variant of the "back_to_menu" branch: it unregisters the message
\* whose menu is shown again.
BackToMenuUnregisters(env, m) ==
    /\ Suspended /\ cb.pc = "idle" /\ ~Quiet(env)
    /\ m \in 1..Len(chat_of)
    /\ active_messages' =
         [d \in Durations |-> unregister_active_message(active_messages, d, <<chat_of[m], m>>)[d]]
    /\ hist' = HistOutside(env)
    /\ event' = Ev("back_to_menu", "", NoHandle, NoGen)
    /\ UNCHANGED <<wingo_results, wingo_predictions, chat_of, job, cb>>

\* button_callback, any other option ("back_to_menu"): the menu is shown again.
BackToMenu(env, m) ==
    /\ Suspended /\ cb.pc = "idle" /\ ~Quiet(env)
    /\ m \in 1..Len(chat_of)
    /\ hist' = HistOutside(env)
    /\ event' = Ev("back_to_menu", "", NoHandle, NoGen)
    /\ UNCHANGED <<active_messages, wingo_results, wingo_predictions, chat_of, job, cb>>

\* button_callback, option "wingo_30sec" or "wingo_1min": the content is
\* generated and the edit of the pressed message is awaited.
ShowPrediction(env, duration, m) ==
    /\ Suspended /\ cb.pc = "idle" /\ ~Quiet(env)
    /\ m \in 1..Len(chat_of)
    /\ CanPress(env, duration, m)
    /\ \E g \in Generated(env, duration) :
          /\ wingo_predictions' = g.predictions
          /\ event' = Ev("show", duration, <<chat_of[m], m>>, GenInfo(g))
    /\ cb' = [pc |-> "edit", duration |-> duration, chat_id |-> chat_of[m], message_id |-> m]
    /\ hist' = HistOutside(env)
    /\ UNCHANGED <<active_messages, wingo_results, chat_of, job>>

\* The edit of the pressed message returns: registered on success, a new
\* message is tried on failure.
ShowEditReturns(env, ok) ==
    /\ Suspended /\ cb.pc = "edit"
    /\ IF ok
       THEN /\ active_messages' =
                 register_active_message(active_messages, cb.duration,
                                         <<cb.chat_id, cb.message_id>>)
            /\ cb' = IdleCb
            /\ hist' = HistRegistered(env, cb.duration, <<cb.chat_id, cb.message_id>>)
            /\ event' = Ev("show_edit_ok", cb.duration, <<cb.chat_id, cb.message_id>>, NoGen)
       ELSE /\ active_messages' = active_messages
            /\ cb' = [cb EXCEPT !.pc = "send"]
            /\ hist' = HistOutside(env)
            /\ event' = Ev("show_edit_failed", cb.duration, <<cb.chat_id, cb.message_id>>, NoGen)
    /\ UNCHANGED <<wingo_results, wingo_predictions, chat_of, job>>

\* A faulty variant of the send's return: the pressed message is registered
\* along with the new one.
ShowSendRegistersPressed(env, ok) ==
    /\ Suspended /\ cb.pc = "send"
    /\ IF ok
       THEN LET new_message == <<cb.chat_id, Len(chat_of) + 1>>
            IN /\ Len(chat_of) < MaxMessages
               /\ chat_of' = Append(chat_of, cb.chat_id)
               /\ active_messages' =
                    register_active_message(
                        register_active_message(active_messages, cb.duration,
                                                <<cb.chat_id, cb.message_id>>),
                        cb.duration, new_message)
               /\ hist' = HistRegistered(env, cb.duration, new_message)
               /\ event' = Ev("show_send_ok", cb.duration, new_message, NoGen)
       ELSE /\ UNCHANGED <<chat_of, active_messages>>
            /\ hist' = HistOutside(env)
            /\ event' = Ev("show_send_failed", cb.duration, NoHandle, NoGen)
    /\ cb' = IdleCb
    /\ UNCHANGED <<wingo_results, wingo_predictions, job>>

\* The send of the new message returns: the new message is registered on
\* success, nothing on failure.
ShowSendReturns(env, ok) ==
    /\ Suspended /\ cb.pc = "send"
    /\ IF ok
       THEN LET new_message == <<cb.chat_id, Len(chat_of) + 1>>
            IN /\ Len(chat_of) < MaxMessages
               /\ chat_of' = Append(chat_of, cb.chat_id)
               /\ active_messages' =
                    register_active_message(active_messages, cb.duration, new_message)
               /\ hist' = HistRegistered(env, cb.duration, new_message)
               /\ event' = Ev("show_send_ok", cb.duration, new_message, NoGen)
       ELSE /\ UNCHANGED <<chat_of, active_messages>>
            /\ hist' = HistOutside(env)
            /\ event' = Ev("show_send_failed", cb.duration, NoHandle, NoGen)
    /\ cb' = IdleCb
    /\ UNCHANGED <<wingo_results, wingo_predictions, job>>

-----------------------------------------------------------------------------
(* bot.py: the scheduler round *)

Track(env, h) == IF env.track THEN h ELSE EmptyHist

\* update_messages_for_duration up to its loop: generate, simulate when the
\* clock says so, take the live list.
PhaseStart(env, duration, h, second) ==
    /\ \E g \in Generated(env, duration) :
         \E a \in AfterSimulation(env, duration, g.predictions, second) :
            /\ wingo_results' = a.results
            /\ wingo_predictions' = a.predictions
            /\ event' = Ev(IF a.simulated THEN "round_simulated" ELSE "round",
                           duration, NoHandle, GenInfo(g))
    /\ job' = [pc |-> "loop", duration |-> duration, it |-> 0, cur |-> NoHandle,
               second |-> second]
    /\ hist' = Track(env, [h EXCEPT !.snap[duration] = active_messages[duration]])
    /\ UNCHANGED <<active_messages, chat_of, cb>>

\* The second the job fires at: Interval seconds after its last firing.
FiringSecond(env) ==
    IF env.mode = "clock" THEN (job.second + Interval) % SecondsPerMinute ELSE job.second

\* The job fires: update_active_messages starts with "30 SEC".
UpdateActiveMessages(env) ==
    /\ job.pc = "idle" /\ ~JobQuiet(env)
    /\ PhaseStart(env, "30 SEC", EmptyHist, FiringSecond(env))

\* for chat_id, message_id in active_messages: the list iterator yields the
\* element at its index, if the live list is that long, and the edit is awaited.
LoopNext(env) ==
    /\ job.pc = "loop"
    /\ LET lst == active_messages[job.duration]
       IN IF job.it < Len(lst)
          THEN LET cur == lst[job.it + 1]
               IN /\ job' = [job EXCEPT !.pc = "await", !.it = @ + 1, !.cur = cur]
                  /\ hist' = Track(env, [hist EXCEPT
                                !.attempted = @ \cup {<<job.duration, cur>>},
                                !.owed = @ \ {<<job.duration, cur>>}])
                  /\ event' = Ev("edit", job.duration, cur, NoGen)
          ELSE /\ job' = [job EXCEPT !.pc = "after", !.cur = NoHandle]
               /\ hist' = Track(env, [hist EXCEPT !.log = Append(@, job.duration)])
               /\ event' = Ev("loop_end", job.duration, NoHandle, NoGen)
    /\ UNCHANGED <<active_messages, wingo_results, wingo_predictions, chat_of, cb>>

\* A faulty variant of the scheduler's except clause: it writes back the list
\* the loop started from, without the failing handle.
EditReturnsStale(env, ok) ==
    /\ job.pc = "await"
    /\ ok \in env.edits
    /\ IF ok
       THEN /\ active_messages' = active_messages
            /\ hist' = Track(env, hist)
            /\ event' = Ev("edit_ok", job.duration, job.cur, NoGen)
       ELSE /\ active_messages' =
                 [active_messages EXCEPT ![job.duration] =
                     IF job.cur \in Range(hist.snap[job.duration])
                     THEN RemoveFirst(hist.snap[job.duration], job.cur)
                     ELSE hist.snap[job.duration]]
            /\ hist' = Track(env, [hist EXCEPT !.failed = @ \cup {<<job.duration, job.cur>>}])
            /\ event' = Ev("edit_failed", job.duration, job.cur, NoGen)
    /\ job' = [job EXCEPT !.pc = "loop"]
    /\ UNCHANGED <<wingo_results, wingo_predictions, chat_of, cb>>

\* The scheduler's edit returns: nothing on success; on failure the except
\* clause unregisters the handle, and the loop goes on.
EditReturns(env, ok) ==
    /\ job.pc = "await"
    /\ ok \in env.edits
    /\ IF ok
       THEN /\ active_messages' = active_messages
            /\ hist' = Track(env, hist)
            /\ event' = Ev("edit_ok", job.duration, job.cur, NoGen)
       ELSE LET lst == active_messages[job.duration]
                later == {<<job.duration, lst[k]>> : k \in (job.it + 1)..Len(lst)}
                           \ {<<job.duration, job.cur>>}
            IN /\ active_messages' =
                    unregister_active_message(active_messages, job.duration, job.cur)
               /\ hist' = Track(env, [hist EXCEPT
                              !.failed = @ \cup {<<job.duration, job.cur>>},
                              !.owed = @ \cup later])
               /\ event' = Ev("edit_failed", job.duration, job.cur, NoGen)
    /\ job' = [job EXCEPT !.pc = "loop"]
    /\ UNCHANGED <<wingo_results, wingo_predictions, chat_of, cb>>

\* update_active_messages goes on with "1 MIN".
UpdateSecondDuration(env) ==
    /\ job.pc = "after" /\ job.duration = "30 SEC"
    /\ PhaseStart(env, "1 MIN", hist, job.second)

\* update_active_messages ends with clear_old_messages; the event names the
\* categories it cleared (the ones it logs).
ClearOldMessages(env) ==
    /\ job.pc = "after" /\ job.duration = "1 MIN"
    /\ active_messages' = clear_old_messages(active_messages)
    /\ job' = [IdleJob EXCEPT !.second = job.second]
    /\ hist' = Track(env, [hist EXCEPT !.log = Append(@, "clear")])
    /\ event' = [op |-> "clear", duration |-> "", handle |-> NoHandle, gen |-> NoGen,
                 pruned |-> {d \in Durations : Len(active_messages[d]) > max_messages}]
    /\ UNCHANGED <<wingo_results, wingo_predictions, chat_of, cb>>

-----------------------------------------------------------------------------
(* The store and the generator called on their own: the calls of            *)
(* send_group_updates, of the handlers and of the scheduler, without the     *)
(* registry around them.                                                     *)

\* The store's own functions called directly, next to a generator that meets
\* one failure and one answer of the remote source.
EnvDb ==
    [mode |-> "db",
     firsts |-> {r \in RemoteResponses :
                   \/ r.kind = "exception"
                   \/ Len(r.data) = 1 /\ r.data[1] \in RemoteRecords},
     seconds |-> LatestResponses,
     clock |-> {TRUE},
     edits |-> {TRUE},
     track |-> FALSE,
     rows |-> MaxSaved,
     results |-> MaxNewResults]

\* The generator with everything the remote source may answer.
EnvGen ==
    [mode |-> "gen",
     firsts |-> RemoteResponses,
     seconds |-> LatestResponses,
     clock |-> {TRUE},
     edits |-> {TRUE},
     track |-> FALSE,
     rows |-> MaxSaved,
     results |-> MaxNewResults]

\* The periods, predictions and results the direct calls of the store are given.
DirectPeriods == {812}
DirectPredictions == {"SMALL"}
DirectResults == {"RED"}

NewPredictions == Len(wingo_predictions) - Len(patterns)

\* fixed_prediction.generate_formatted_predictions(duration, RESULTS_LENGTH)
Generate(env, duration) ==
    /\ \E g \in Generated(env, duration) :
          /\ wingo_predictions' = g.predictions
          /\ event' = Ev("generate", duration, NoHandle, GenInfo(g))
    /\ UNCHANGED <<active_messages, wingo_results, chat_of, job, cb, hist>>

\* prediction_logic.simulate_result(duration)
SimulateResult(env, duration) ==
    /\ NewResults("30 SEC") + NewResults("1 MIN") < MaxNewResults
    /\ \E draw \in {d \in SimulationDraws : d.result \in {d.color, d.size}} :
          LET a == simulate_result(wingo_results, wingo_predictions, duration, draw)
          IN /\ wingo_results' = a.results
             /\ wingo_predictions' = a.predictions
             /\ event' = [op |-> "simulate_result", duration |-> duration,
                          handle |-> NoHandle, gen |-> NoGen,
                          period_id |-> a.period_id, result |-> draw.result]
    /\ UNCHANGED <<active_messages, chat_of, job, cb, hist>>

\* database.save_prediction(period_id, duration, prediction)
SavePrediction(env, period_id, duration, prediction) ==
    /\ HasRow(wingo_predictions, period_id, duration) \/ NewPredictions < env.rows
    /\ wingo_predictions' = save_prediction(wingo_predictions, period_id, duration, prediction)
    /\ event' = [op |-> "save_prediction", duration |-> duration,
                 handle |-> NoHandle, gen |-> NoGen,
                 period_id |-> period_id, prediction |-> prediction,
                 returned |-> save_prediction_id(wingo_predictions, period_id, duration),
                 rows_before |-> Len(wingo_predictions)]
    /\ UNCHANGED <<active_messages, wingo_results, chat_of, job, cb, hist>>

\* database.update_predictions(period_id, duration, actual_result)
UpdatePredictions(env, period_id, duration, actual_result) ==
    /\ wingo_predictions' =
         update_predictions(wingo_predictions, period_id, duration, actual_result)
    /\ event' = [op |-> "update_predictions", duration |-> duration,
                 handle |-> NoHandle, gen |-> NoGen,
                 period_id |-> period_id, result |-> actual_result]
    /\ UNCHANGED <<active_messages, wingo_results, chat_of, job, cb, hist>>

\* The windows get_win_rate is called with; 20 is its default.
WinRateWindows == {1, 5, 20}

\* database.get_win_rate(duration, last_n)
GetWinRate(env, duration, last_n) ==
    /\ event' = [op |-> "get_win_rate", duration |-> duration,
                 handle |-> NoHandle, gen |-> NoGen, last_n |-> last_n,
                 rate |-> get_win_rate(wingo_predictions, duration, last_n)]
    /\ UNCHANGED <<active_messages, wingo_results, wingo_predictions, chat_of, job, cb, hist>>

-----------------------------------------------------------------------------
(* The specifications *)

Handlers(env) ==
    \/ \E chat_id \in Chats : Start(env, chat_id)
    \/ \E m \in 1..MaxMessages : Exit(env, m)
    \/ \E m \in 1..MaxMessages : BackToMenu(env, m)
    \/ \E duration \in Durations, m \in 1..MaxMessages : ShowPrediction(env, duration, m)
    \/ \E ok \in BOOLEAN : ShowEditReturns(env, ok)
    \/ \E ok \in BOOLEAN : ShowSendReturns(env, ok)

Round(env) ==
    \/ UpdateActiveMessages(env)
    \/ LoopNext(env)
    \/ \E ok \in BOOLEAN : EditReturns(env, ok)
    \/ UpdateSecondDuration(env)
    \/ ClearOldMessages(env)

Next == Handlers(EnvSmall) \/ Round(EnvSmall)

Spec == Init /\ [][Next]_vars

\* What main() starts, with the job queue firing the job it was given again
\* and again (run_repeating): the handlers of /start and of the buttons, and
\* the update_active_messages job.  start_update_task, which would schedule
\* send_group_updates, is called by nothing main() starts.
SpecLive == Init /\ [][Next]_vars /\ WF_vars(Round(EnvSmall))

\* Within a minute of rounds "30 SEC" receives at most two outcomes and the
\* generator saves at most three predictions.
MaxClockResults == 2
MaxClockRows == 3

\* The job on the clock: it fires every Interval seconds from any second of
\* the minute, no message is registered, and a round takes less than the rest
\* of the second it fired at.  The job queue fires the job again and again.
EnvClock ==
    [mode |-> "clock",
     firsts |-> {[kind |-> "exception", data |-> <<>>]},
     seconds |-> {[kind |-> "exception", data |-> <<>>]},
     clock |-> {},
     edits |-> {TRUE},
     track |-> FALSE,
     rows |-> MaxClockRows,
     results |-> MaxClockResults]

InitClock == InitOf({{2, 12, 22}}, 0..(SecondsPerMinute - 1))

NextClock ==
    \/ UpdateActiveMessages(EnvClock)
    \/ LoopNext(EnvClock)
    \/ UpdateSecondDuration(EnvClock)
    \/ ClearOldMessages(EnvClock)

SpecClock == InitClock /\ [][NextClock]_vars /\ WF_vars(NextClock)

NextCap == Handlers(EnvCap) \/ Round(EnvCap)

SpecCap == Init /\ [][NextCap]_vars

NextDb ==
    \/ \E duration \in Durations : Generate(EnvDb, duration)
    \/ \E duration \in Durations : SimulateResult(EnvDb, duration)
    \/ \E period_id \in DirectPeriods, duration \in Durations, prediction \in DirectPredictions :
          SavePrediction(EnvDb, period_id, duration, prediction)
    \/ \E period_id \in DirectPeriods, duration \in Durations, actual_result \in DirectResults :
          UpdatePredictions(EnvDb, period_id, duration, actual_result)
    \/ \E duration \in Durations, last_n \in WinRateWindows :
          GetWinRate(EnvDb, duration, last_n)

SpecDb == Init /\ [][NextDb]_vars

NextGen ==
    \/ \E duration \in Durations : Generate(EnvGen, duration)
    \/ \E duration \in Durations : SimulateResult(EnvGen, duration)

SpecGen == Init /\ [][NextGen]_vars

-----------------------------------------------------------------------------
(* The claims *)

\* C1: in every scheduler round, every handle that is in the category's
\* registry when update_messages_for_duration starts receives an edit attempt
\* in that round, also when the edit of another handle fails and that handle
\* is unregistered during the loop.
C1_EveryHandleAttempted ==
    job.pc = "after" =>
        \A h \in Range(hist.snap[job.duration]) : <<job.duration, h>> \in hist.attempted

\* C3: when the scheduler's edit of a handle fails, the pair is no longer in
\* that category's registry once the round has completed (unless it was
\* registered again after the failure), whatever the registry held, the same
\* pair registered more than once included.
C3_FailedHandleRemoved ==
    event.op = "clear" =>
        \A f \in hist.failed : f[2] \notin Range(active_messages[f[1]])

\* C4: a failed edit never aborts the round: the loop goes on to every handle
\* that stood after the failing one, and the round still processes "1 MIN"
\* and runs clear_old_messages.
C4_FailureIsolated ==
    /\ job.pc = "after" => \A o \in hist.owed : o[1] # job.duration
    /\ event.op = "clear" => hist.log = <<"30 SEC", "1 MIN", "clear">>

\* The part of C4 the code keeps: every started round reaches "1 MIN" and
\* clear_old_messages, in this order, whatever edits failed.
C4_RoundCompletes ==
    /\ event.op = "clear" => hist.log = <<"30 SEC", "1 MIN", "clear">>
    /\ job.pc \in {"loop", "await"} /\ job.duration = "1 MIN" => hist.log = <<"30 SEC">>

\* C9: a handle leaves the registry only through a failed scheduler edit of
\* that handle or through clear_old_messages pruning a category that holds
\* more than 20 handles; the exit button, the back-to-menu button, /start and
\* successful scheduler edits leave both categories' registries unchanged.
C9_Leaves ==
    /\ \A d \in Durations : \A h \in Range(active_messages[d]) :
          Count(active_messages'[d], h) < Count(active_messages[d], h) =>
              \/ event'.op = "edit_failed" /\ event'.duration = d /\ event'.handle = h
              \/ event'.op = "clear" /\ Len(active_messages[d]) > 20
    /\ event'.op \in {"exit", "back_to_menu", "start", "edit_ok"} =>
          active_messages' = active_messages

C9_OnlyFailedEditOrPruning == [][C9_Leaves]_vars

\* C9's case: with "30 SEC" above the cap, the scheduler's edit of the second
\* message has failed and the handle has left the list.
C9_Witness ==
    /\ event.op = "edit_failed"
    /\ event.handle = <<1, 2>>
    /\ event.handle \notin Range(active_messages[event.duration])
    /\ Len(active_messages["30 SEC"]) >= 20
    /\ active_messages["1 MIN"] # <<>>

\* C10: after every completed round each category's registry holds at most 20
\* handles; a pruned category retains exactly its 20 most recently registered
\* handles in their original order, and a category that is not pruned is left
\* as it was.
C10_Pruned ==
    event'.op = "clear" =>
        \A d \in Durations :
            LET before == active_messages[d]
                after == active_messages'[d]
            IN /\ Len(after) <= 20
               /\ IF Len(before) > 20
                  THEN /\ Len(after) = 20
                       /\ \A i \in 1..20 : after[i] = before[Len(before) - 20 + i]
                  ELSE after = before

C10_RetainsMostRecent == [][C10_Pruned]_vars

\* C10's case: the round has pruned "30 SEC", dropping the second message from
\* the head of the list, and "1 MIN" holds a handle.
C10_Witness ==
    /\ event.op = "clear"
    /\ event.pruned = {"30 SEC"}
    /\ Len(active_messages["30 SEC"]) = 20
    /\ <<1, 2>> \notin Range(active_messages["30 SEC"])
    /\ active_messages["1 MIN"] # <<>>

\* C2: the predictions table holds at most one row per (period, category),
\* and a save_prediction for a pair that already has a row leaves the number
\* of rows as it was, writes the prediction to that row and returns its id.
C2_OneRowPerPeriod ==
    /\ \A i, j \in 1..Len(wingo_predictions) :
          i < j => ~Matches(wingo_predictions[j], wingo_predictions[i].period_id,
                            wingo_predictions[i].duration)
    /\ event.op = "save_prediction" =>
          \A i \in 1..event.rows_before :
              Matches(wingo_predictions[i], event.period_id, event.duration) =>
                  /\ Len(wingo_predictions) = event.rows_before
                  /\ event.returned = i
                  /\ wingo_predictions[i].prediction = event.prediction

\* C2's case: a row inserted after the seed has been saved again.
C2_Witness ==
    /\ event.op = "save_prediction"
    /\ event.returned > Len(patterns)
    /\ Len(wingo_predictions) = event.rows_before
    /\ Matches(wingo_predictions[event.returned], event.period_id, event.duration)

\* C5: when the remote fetch of recent outcomes fails (exception, status,
\* payload or empty list), the generator shows the latest outcomes of the
\* local store, newest first, takes the store's highest period of the
\* category plus one as the next period, and saves the prediction under it.
C5_FallsBackToLocal ==
    event.op = "generate" /\ event.gen.first # "ok" =>
        LET d == event.duration
            rows == {i \in 1..Len(wingo_results) : wingo_results[i].duration = d}
            top == CHOOSE i \in rows :
                      \A k \in rows : wingo_results[k].period_id <= wingo_results[i].period_id
            shown == event.gen.results
            next == wingo_results[top].period_id + 1
        IN /\ event.gen.path = "local"
           /\ Len(shown) = (IF Cardinality(rows) < 10 THEN Cardinality(rows) ELSE 10)
           /\ \A k \in 1..Len(shown) : \E i \in rows : shown[k] = wingo_results[i]
           /\ \A k \in 1..(Len(shown) - 1) : shown[k].period_id > shown[k + 1].period_id
           /\ shown[1] = wingo_results[top]
           /\ event.gen.next_period = next
           /\ event.gen.prediction_id \in 1..Len(wingo_predictions)
           /\ Matches(wingo_predictions[event.gen.prediction_id], next, d)
           /\ wingo_predictions[event.gen.prediction_id].prediction = event.gen.next_prediction

\* C5's case: the remote source answers with a status other than 200 (and
\* its second call succeeds) after the store has received an outcome of its
\* own: the prediction is inserted under the store's next period.
C5_Witness ==
    /\ event.op = "generate"
    /\ event.gen.first = "status"
    /\ ~event.gen.second_failed
    /\ event.gen.inserted
    /\ event.duration = "30 SEC"
    /\ event.gen.next_period = 814

\* C6: when the remote call for the latest period fails although the fetch
\* of outcomes succeeded, the next period is the local store's highest period
\* of the category plus one.
C6_SecondFailureUsesLocal ==
    event.op = "generate" /\ event.gen.first = "ok" /\ event.gen.second_failed =>
        \E i \in 1..Len(wingo_results) :
            /\ wingo_results[i].duration = event.duration
            /\ event.gen.next_period = wingo_results[i].period_id + 1
            /\ \A k \in 1..Len(wingo_results) :
                  wingo_results[k].duration = event.duration =>
                      wingo_results[k].period_id <= wingo_results[i].period_id

\* C7: a prediction row that has a result and a win flag keeps both through
\* every later operation.
C7_Resolved ==
    \A i \in 1..Len(wingo_predictions) :
        wingo_predictions[i].result # NULL /\ wingo_predictions[i].is_win # NULL =>
            /\ i <= Len(wingo_predictions')
            /\ wingo_predictions'[i].result = wingo_predictions[i].result
            /\ wingo_predictions'[i].is_win = wingo_predictions[i].is_win

C7_WrittenOnce == [][C7_Resolved]_vars

\* C7's case: update_predictions has been called with another result for a
\* pair whose row is resolved, and save_prediction has rewritten the
\* prediction of that row.
C7_Witness ==
    /\ event.op = "update_predictions"
    /\ \E i \in 1..Len(wingo_predictions) :
          /\ Matches(wingo_predictions[i], event.period_id, event.duration)
          /\ wingo_predictions[i].result \notin {NULL, Some(event.result)}
          /\ wingo_predictions[i].prediction = "SMALL"

\* C8: when content generation inserts a new prediction row for (p, c), the
\* local outcomes table holds no outcome for (p, c).
C8_NoOutcomeAtInsert ==
    event.op = "generate" /\ event.gen.inserted =>
        ~HasRow(wingo_results, event.gen.next_period, event.duration)

\* C11: a handle that button_callback registers while the scheduler round is
\* suspended at an await is still in the registry when the round completes,
\* unless the scheduler's edit of that handle failed after the registration
\* or clear_old_messages pruned its category.
C11_NoLostRegistration ==
    event.op = "clear" =>
        \A r \in hist.registered :
            \/ r[2] \in Range(active_messages[r[1]])
            \/ r \in hist.failed
            \/ r[1] \in event.pruned

\* C11's case: during a round in which the scheduler's edit of the first
\* message failed, the second message was registered; the round has
\* completed and the second message is registered.
C11_Witness ==
    /\ event.op = "clear"
    /\ <<"30 SEC", <<1, 2>>>> \in hist.registered
    /\ <<"30 SEC", <<1, 1>>>> \in hist.failed
    /\ <<1, 1>> \in Range(hist.snap["30 SEC"])
    /\ <<1, 2>> \notin Range(hist.snap["30 SEC"])
    /\ <<1, 2>> \in Range(active_messages["30 SEC"])

\* C12: after main() has started the application, send_group_updates
\* eventually runs, the job queue firing its jobs fairly.
C12_GroupUpdatesPosted == <>(event.op = "send_group_updates")

\* C13: no operation modifies or deletes a row of the outcomes table;
\* add_new_result (simulate_result) adds exactly one row, and save_prediction,
\* update_predictions and content generation leave the table as it is.
C13_Frame ==
    /\ Len(wingo_results') >= Len(wingo_results)
    /\ \A i \in 1..Len(wingo_results) : wingo_results'[i] = wingo_results[i]
    /\ event'.op = "simulate_result" => Len(wingo_results') = Len(wingo_results) + 1
    /\ event'.op \in {"generate", "save_prediction", "update_predictions"} =>
          wingo_results' = wingo_results

C13_OutcomesAppendOnly == [][C13_Frame]_vars

\* C13's case: an outcome was added to the seeded table, and save_prediction
\* has run after it.
C13_Witness ==
    /\ event.op = "save_prediction"
    /\ Len(wingo_results) = Len(patterns) + 1
    /\ wingo_results[Len(wingo_results)].duration = "1 MIN"

\* C14: add_new_result for a category stores the category's highest period
\* plus one (790 when the category has no outcome), whatever the other
\* category holds; within a category the periods strictly increase in
\* insertion order.
C14_MonotonicPeriods ==
    /\ \A i, j \in 1..Len(wingo_results) :
          i < j /\ wingo_results[i].duration = wingo_results[j].duration =>
              wingo_results[i].period_id < wingo_results[j].period_id
    /\ event.op = "simulate_result" =>
          LET n == Len(wingo_results)
              earlier == {i \in 1..(n - 1) : wingo_results[i].duration = event.duration}
          IN /\ wingo_results[n].duration = event.duration
             /\ wingo_results[n].period_id = event.period_id
             /\ \E i \in earlier :
                   /\ event.period_id = wingo_results[i].period_id + 1
                   /\ \A k \in earlier :
                         wingo_results[k].period_id <= wingo_results[i].period_id
    /\ \A d \in Durations :
          /\ get_next_period_id(<<>>, d) = 790
          /\ get_next_period_id(SelectSeq(wingo_results, LAMBDA r : r.duration # d), d) = 790

\* C14's case: "1 MIN" has received the outcome of period 811 while
\* "30 SEC" holds periods up to 812.
C14_Witness ==
    /\ event.op = "simulate_result"
    /\ event.duration = "1 MIN"
    /\ event.period_id = 811
    /\ \E i \in 1..Len(wingo_results) :
          wingo_results[i].duration = "30 SEC" /\ wingo_results[i].period_id = 812

\* C15: for every failure of the remote call (exception or timeout, status
\* other than 200, payload without success or data) get_wingo_results returns
\* the empty list and web_scraper.get_next_period_id returns an integer (1000).
C15_RemoteNeverFatal ==
    event.op = "generate" =>
        /\ event.gen.first \in {"exception", "status", "payload", "empty"} =>
              event.gen.web_results = <<>> /\ event.gen.path = "local"
        /\ event.gen.second_failed => event.gen.web_next = 1000
        /\ event.gen.web_next \in Int

\* C15's case: the generator has run with a payload without data from the
\* first remote call and an exception from the second.
C15_Witness ==
    /\ event.op = "generate"
    /\ event.gen.first = "payload"
    /\ event.gen.second_failed

\* C16: in the text of generate_formatted_predictions no period is listed on
\* more than one line (the next-period line and the past-predictions lines).
C16_NoPeriodListedTwice ==
    event.op = "generate" =>
        \A i, j \in 1..Len(event.gen.listed) :
            event.gen.listed[i] = event.gen.listed[j] => i = j

\* C17: on the remote and on the local path the prediction is the opposite
\* of the latest outcome's result label (RED->GREEN, GREEN->RED, BIG->SMALL,
\* SMALL->BIG), and it is one of RED, GREEN, BIG, SMALL for every input, an
\* empty outcome list and a remote record with an empty label included.
C17_Opposite ==
    [l \in PredictionOptions |->
        CASE l = "RED" -> "GREEN"
          [] l = "GREEN" -> "RED"
          [] l = "BIG" -> "SMALL"
          [] l = "SMALL" -> "BIG"]

C17_PredictionIsOpposite ==
    /\ event.op = "generate" =>
          /\ event.gen.next_prediction \in PredictionOptions
          /\ Len(event.gen.results) > 0 =>
                /\ event.gen.path = "remote" =>
                      event.gen.results[1].result = event.gen.web_results[1].result
                /\ event.gen.results[1].result \in PredictionOptions =>
                      event.gen.next_prediction = C17_Opposite[event.gen.results[1].result]
    /\ \A d \in Durations, choice \in PredictionOptions, f \in RemoteFailures :
          generate_formatted_predictions(<<>>, <<>>, d, RESULTS_LENGTH, f, f,
                                         choice).next_prediction = choice

\* C17's case: the generator has run on a remote list whose latest record
\* has an empty result label.
C17_Witness ==
    /\ event.op = "generate"
    /\ event.gen.path = "remote"
    /\ event.gen.web_results[1].result = ""
    /\ event.gen.next_prediction = "BIG"

\* C18: when add_new_result records an outcome for a period and category,
\* every open prediction of that period and category gets the outcome's label
\* as its result and a win flag that is true exactly when its predicted label
\* equals that label; the predictions of other periods or of the other
\* category, and the resolved ones, stay as they are.
C18_Settles ==
    event'.op = "simulate_result" =>
        /\ Len(wingo_predictions') = Len(wingo_predictions)
        /\ \A i \in 1..Len(wingo_predictions) :
              LET old == wingo_predictions[i]
                  new == wingo_predictions'[i]
              IN IF /\ old.period_id = event'.period_id
                    /\ old.duration = event'.duration
                    /\ old.result = NULL
                 THEN new = [old EXCEPT !.result = Some(event'.result),
                                        !.is_win = Some(old.prediction = event'.result)]
                 ELSE new = old

C18_OutcomeSettlesOpenPredictions == [][C18_Settles]_vars

\* C18's case: add_new_result has recorded an outcome whose period had an
\* open prediction saved by the generator, which is now a win.
C18_Witness ==
    /\ event.op = "simulate_result"
    /\ \E i \in 1..Len(wingo_predictions) :
          /\ wingo_predictions[i].period_id = event.period_id
          /\ wingo_predictions[i].duration = event.duration
          /\ wingo_predictions[i].prediction = event.result
          /\ wingo_predictions[i].is_win = Some(TRUE)
          /\ i > Len(patterns)

\* C19: button_callback registers the pressed message if and only if its
\* edit succeeded; when the edit fails a new message is sent and only the new
\* message is registered; when the edit and the send both fail the registry
\* is as it was and the handler returns without an exception.
C19_Returns ==
    LET pressed == <<cb.chat_id, cb.message_id>>
        d == cb.duration
    IN /\ cb.pc = "edit" /\ cb'.pc = "idle" =>
             /\ event'.op = "show_edit_ok"
             /\ active_messages' = [active_messages EXCEPT ![d] = Append(@, pressed)]
       /\ cb.pc = "edit" /\ cb'.pc = "send" =>
             /\ event'.op = "show_edit_failed"
             /\ active_messages' = active_messages
       /\ cb.pc = "edit" => cb'.pc \in {"edit", "idle", "send"}
       /\ cb.pc = "send" /\ cb'.pc # "send" =>
             /\ cb' = IdleCb
             /\ event'.op \in {"show_send_ok", "show_send_failed"}
             /\ event'.op = "show_send_ok" =>
                   /\ event'.handle[2] \notin DOMAIN chat_of
                   /\ event'.handle[2] \in DOMAIN chat_of'
                   /\ active_messages' =
                        [active_messages EXCEPT ![d] = Append(@, event'.handle)]
             /\ event'.op = "show_send_failed" => active_messages' = active_messages

C19_RegistersWhatIsShown == [][C19_Returns]_vars

\* C19's case: the edit of message 1 failed, message 2 was sent in its place
\* and is the only registered message.
C19_Witness ==
    /\ event.op = "show_send_ok"
    /\ event.handle = <<1, 2>>
    /\ active_messages[event.duration] = <<<<1, 2>>>>
    /\ cb.pc = "idle"

\* C20: with the job firing every 5 seconds from any second of the minute,
\* a "30 SEC" outcome and a "1 MIN" outcome are eventually added to the
\* store.
C20_OutcomesKeepComing ==
    /\ <>(NewResults("30 SEC") > 0)
    /\ <>(NewResults("1 MIN") > 0)

\* C20, the rest of the claim: a round adds at most one outcome per category.
C20_Adds ==
    \A d \in Durations :
        Len(RowsOf(wingo_results', d)) <= Len(RowsOf(wingo_results, d)) + 1

C20_OneOutcomePerRound == [][C20_Adds]_vars

\* C21: get_win_rate(duration, last_n) is wins/total among the last_n most
\* recently inserted resolved predictions of the category (unresolved rows
\* and rows of the other category left out), and 0.5 when the category has
\* no resolved prediction.
C21_WinRateOfLastN ==
    event.op = "get_win_rate" =>
        LET resolved == SelectSeq(wingo_predictions,
                                  LAMBDA r : r.duration = event.duration
                                             /\ r.result # NULL)
            n == Len(resolved)
            window == {i \in 1..n : i > n - event.last_n}
            wins == Cardinality({i \in window : resolved[i].is_win = Some(TRUE)})
        IN IF n = 0
           THEN event.rate.wins * 2 = event.rate.total
           ELSE event.rate.wins * Cardinality(window) = wins * event.rate.total

\* C22: a prediction saved on the local path of the generator is for the
\* category's highest outcome period plus one, and the next add_new_result
\* of the category stores that very period and sets the result and the win
\* flag of the prediction.
C22_SavedForNextOutcome ==
    event.op = "generate" /\ event.gen.path = "local" =>
        /\ event.gen.next_period = get_next_period_id(wingo_results, event.duration)
        /\ \E i \in 1..Len(wingo_predictions) :
              /\ Matches(wingo_predictions[i], event.gen.next_period, event.duration)
              /\ wingo_predictions[i].prediction = event.gen.next_prediction
              /\ wingo_predictions[i].result = NULL

C22_NextOutcomeResolves ==
    event'.op = "simulate_result" =>
        LET period_id == get_next_period_id(wingo_results, event'.duration)
        IN /\ event'.period_id = period_id
           /\ \A i \in 1..Len(wingo_predictions) :
                 /\ Matches(wingo_predictions[i], period_id, event'.duration)
                 /\ wingo_predictions[i].result = NULL
                 => /\ wingo_predictions'[i].result = Some(event'.result)
                    /\ wingo_predictions'[i].is_win =
                         Some(wingo_predictions[i].prediction = event'.result)

C22_LocalPredictionResolved ==
    [](C22_SavedForNextOutcome) /\ [][C22_NextOutcomeResolves]_vars

\* C22's case: the prediction the local path saved for period 811 of "1 MIN"
\* was resolved, as a loss, by the outcome add_new_result stored next.
C22_Witness ==
    /\ event.op = "simulate_result"
    /\ event.duration = "1 MIN"
    /\ event.period_id = 811
    /\ \E i \in (Len(patterns) + 1)..Len(wingo_predictions) :
          /\ Matches(wingo_predictions[i], 811, "1 MIN")
          /\ wingo_predictions[i].result = Some(event.result)
          /\ wingo_predictions[i].is_win = Some(FALSE)

\* C23: in every reachable state of the store, the win flag of every
\* resolved prediction is true exactly when its predicted label equals its
\* recorded result label.
C23_ResolvedConsistent ==
    \A i \in 1..Len(wingo_predictions) :
        LET r == wingo_predictions[i]
        IN r.result # NULL =>
              r.is_win = Some(r.prediction = r.result[1])

\* C24: a (chat, message) pair appears at most once across the registries of
\* the two categories, whatever buttons were pressed on the message.
C24_TrackedOnce ==
    \A m \in 1..Len(chat_of) :
        Count(active_messages["30 SEC"], <<chat_of[m], m>>)
        + Count(active_messages["1 MIN"], <<chat_of[m], m>>) <= 1

====
